---- MODULE Spec2Model ----
(***************************************************************************)
(* Client-side session and conversation synchronisation of finance-bot:    *)
(* the ChatProvider state machine (conversation list, current chat,        *)
(* paginated message window, optimistic send with retry, deletion          *)
(* fallback), the MessageInput submit handler that drives it, and the      *)
(* axios interceptors that attach and refresh the token pair.              *)
(***************************************************************************)
EXTENDS Integers, Sequences, FiniteSets, Bags, TLC

(***************************************************************************)
(* Bounds of the model and constants of the program.                       *)
(***************************************************************************)
\* number of operations the user starts in one run (send, new chat, switch,
\* delete, load more)
MaxOps == 3

\* CONSTANTS.DEFAULT_PAGE_SIZE
DEFAULT_PAGE_SIZE == 3
\* const maxRetries = 2
maxRetries == 2
\* setTimeout(resolve, 1000 * retryCount)
BackoffUnit == 1000

Null == "null"
Undefined == "undefined"
Temp == "temp"

Min(a, b) == IF a < b THEN a ELSE b
Max(a, b) == IF a > b THEN a ELSE b

(***************************************************************************)
(* Chats and messages (types/chat.ts).                                     *)
(***************************************************************************)
Chat(id, anon) == [id |-> id, is_anonymous |-> anon]
NullChat == [id |-> Null, is_anonymous |-> FALSE]

\* currentChat?.id
IdOf(chat) == IF chat = NullChat THEN Undefined ELSE chat.id

Message(pfx, c, n, chatId, role, content, at) ==
    [id |-> [pfx |-> pfx, chat |-> c, n |-> n], chat_id |-> chatId,
     role |-> role, content |-> content, created_at |-> at]

\* ChatService.getWelcomeMessage: id `welcome-${Date.now()}`
getWelcomeMessage(t) ==
    Message("welcome", "local", t, "welcome", "assistant", <<"W">>, t)

\* userMessage of sendMessage: id `user-${Date.now()}`
UserMessage(cur, text, t) ==
    Message("user", "local", t,
            IF IdOf(cur) = Undefined THEN Temp ELSE IdOf(cur),
            "user", text, t)

\* errorMsg of sendMessage: id `error-${Date.now()}`, the fixed apology
ErrorMessage(curId, t) ==
    Message("error", "local", t,
            IF curId = Undefined THEN Temp ELSE curId,
            "assistant", <<"A">>, t)

(***************************************************************************)
(* String.prototype.trim on a text given as a sequence of characters.      *)
(***************************************************************************)
IsSpace(ch) == ch = " "

RECURSIVE TrimLeft(_)
TrimLeft(s) ==
    IF s = <<>> THEN <<>>
    ELSE IF IsSpace(Head(s)) THEN TrimLeft(Tail(s)) ELSE s

RECURSIVE TrimRight(_)
TrimRight(s) ==
    IF s = <<>> THEN <<>>
    ELSE IF IsSpace(s[Len(s)]) THEN TrimRight(SubSeq(s, 1, Len(s) - 1)) ELSE s

Trim(s) == TrimRight(TrimLeft(s))

\* what the user may have typed into the textarea
Texts == { <<>>, <<" ">>, <<"h", "i">>, <<" ", "h", "i", " ">> }

(***************************************************************************)
(* The backend as the client sees it: the conversations it stores, most    *)
(* recent first, and the number of messages of each.  Message k of a       *)
(* conversation is its k-th oldest; a page holds DEFAULT_PAGE_SIZE         *)
(* messages, page 1 the newest, each page oldest first.                    *)
(***************************************************************************)
ChatIds == {"c1", "c2", "c3", "c4", "c5"}
NewChatIds == <<"c3", "c4", "c5">>

ServerMessage(c, k) ==
    Message("msg", c, k, c,
            IF k % 2 = 1 THEN "user" ELSE "assistant",
            IF k % 2 = 1 THEN <<"h", "i">> ELSE <<"R">>, k)

PageFirst(n, page) == Max(1, n - page * DEFAULT_PAGE_SIZE + 1)
PageLast(n, page) == n - (page - 1) * DEFAULT_PAGE_SIZE

ServerPage(c, n, page) ==
    [messages |-> [i \in 1..Max(0, PageLast(n, page) - PageFirst(n, page) + 1)
                     |-> ServerMessage(c, PageFirst(n, page) + i - 1)],
     has_next |-> n > page * DEFAULT_PAGE_SIZE]

(***************************************************************************)
(* Error normalisation on the way from axios to sendMessage.               *)
(***************************************************************************)
\* what the transport can hand to the response interceptor, and the
\* rejections of api.post that come from the interceptor itself
FailKinds == {"no_response", "http_401", "http_500", "refresh_failed"}

AxiosError(kind) ==
    CASE kind = "no_response" ->
           [name |-> "AxiosError", message |-> "Network Error", request |-> TRUE]
      [] kind = "http_401" ->
           [name |-> "AxiosError", message |-> "Request failed with status code 401",
            request |-> TRUE,
            response |-> [status |-> 401, detail |-> "Not authenticated",
                          type |-> Undefined]]
      [] kind = "http_500" ->
           [name |-> "AxiosError", message |-> "Request failed with status code 500",
            request |-> TRUE,
            response |-> [status |-> 500, detail |-> Undefined, type |-> Undefined]]
      [] kind = "refresh_failed" ->
           [name |-> "AxiosError", message |-> "Request failed with status code 401",
            request |-> TRUE,
            response |-> [status |-> 401, detail |-> "Invalid refresh token",
                          type |-> Undefined]]

\* the failures drawn for the requests other than the send
LoadFailKinds == {"no_response"}

\* a value that `||` replaces by its right operand
Falsy(v) == v = Undefined \/ v = ""

\* an Error object: error instanceof Error
InstanceOfError(e) == "name" \in DOMAIN e

\* a normaliser that looks for the request before the response
transformErrorRequestFirst(e) ==
    IF "request" \in DOMAIN e
    THEN [detail |-> "Network error - please check your connection",
          status_code |-> 0,
          type |-> "network_error"]
    ELSE IF "response" \in DOMAIN e
    THEN [detail |-> IF Falsy(e.response.detail) THEN "An error occurred"
                     ELSE e.response.detail,
          status_code |-> e.response.status,
          type |-> e.response.type]
    ELSE [detail |-> "An unexpected error occurred",
          status_code |-> 500,
          type |-> "unknown_error"]

\* transformError of lib/api.ts.  A response's data?.detail and data?.type
\* are Undefined when the response has no data.
transformError(e) ==
    IF "response" \in DOMAIN e
    THEN [detail |-> IF Falsy(e.response.detail) THEN "An error occurred"
                     ELSE e.response.detail,
          status_code |-> e.response.status,
          type |-> e.response.type]
    ELSE IF "request" \in DOMAIN e
    THEN [detail |-> "Network error - please check your connection",
          status_code |-> 0,
          type |-> "network_error"]
    ELSE IF InstanceOfError(e)
    THEN [detail |-> IF Falsy(e.message) THEN "An unexpected error occurred"
                     ELSE e.message,
          status_code |-> 500,
          type |-> "unknown_error"]
    ELSE [detail |-> "An unexpected error occurred",
          status_code |-> 500,
          type |-> "unknown_error"]

\* transformError(error), except that a failed refresh rejects with the
\* refresh call's own error
ApiReject(kind) ==
    IF kind = "refresh_failed" THEN AxiosError(kind)
    ELSE transformError(AxiosError(kind))

\* ChatService.handleChatError
handleChatError(e) ==
    IF "detail" \in DOMAIN e THEN [name |-> "Error", message |-> e.detail]
    ELSE IF "name" \in DOMAIN e THEN e
    ELSE [name |-> "Error", message |-> "An unexpected chat error occurred"]

\* the error ChatService.sendMessage throws for a failure of the given kind
SendMessageError(kind) == handleChatError(ApiReject(kind))

\* the test of the retry loop: the caught error is a network error
IsNetworkError(e) ==
    /\ "status_code" \in DOMAIN e
    /\ "type" \in DOMAIN e
    /\ (e.status_code = 0 \/ e.type = "network_error")

\* a retry loop that retries whatever it caught
ShouldRetryAnyError(e, retryCount) ==
    retryCount + 1 <= maxRetries

\* the retry loop retries a caught error after retryCount++
ShouldRetry(e, retryCount) ==
    IsNetworkError(e) /\ retryCount + 1 <= maxRetries

\* getErrorMessage of lib/utils
getErrorMessage(e) ==
    IF "message" \in DOMAIN e THEN e.message
    ELSE IF "detail" \in DOMAIN e THEN e.detail
    ELSE "An unexpected error occurred"

(***************************************************************************)
(* State.                                                                  *)
(***************************************************************************)
VARIABLES
    \* useAuth().isAuthenticated as the ChatProvider sees it, and whether its
    \* mount effect has run
    isAuthenticated, mounted,
    \* the useState cells of ChatProvider
    chats, currentChat, messages, isLoading, isChatLoading, error,
    hasMoreMessages, currentPage,
    \* the useState cell of MessageInput
    isSubmitting,
    \* the sendMessage call in progress (or the last one): its position, the
    \* currentChat?.id its closure holds, the chat_id of messageData, the
    \* Date.now() of its userMessage, the loop's retryCount, the calls of
    \* ChatService.sendMessage made, the kinds of failure they met, the
    \* backoff delays waited, the outcome
    send,
    \* requests in flight, as bags: getMessages, getChat, deleteChat; and
    \* whether getChats is in flight
    loads, switches, deletes, chatsReq,
    \* the backend
    srvChats, srvCount,
    \* Date.now() as a logical clock, and the number of operations started
    now, ops,
    \* provenance of the window: the conversation and last page of an
    \* unbroken run of successful page loads with increasing pages, or NoWin
    win

reactVars == <<chats, currentChat, messages, isLoading, isChatLoading, error,
               hasMoreMessages, currentPage, isSubmitting>>
flightVars == <<send, loads, switches, deletes, chatsReq>>
srvVars == <<srvChats, srvCount>>
auxVars == <<isAuthenticated, mounted, now, ops, win>>
\* auxVars but for ops
runVars == <<isAuthenticated, mounted, now, win>>
chatVars == <<reactVars, flightVars, srvVars, auxVars>>

IdleSend ==
    [pc |-> "idle", chatId |-> Undefined, body |-> Undefined, userAt |-> 0,
     retryCount |-> 0, attempts |-> 0, fails |-> <<>>, delays |-> <<>>,
     result |-> "none"]

NoWin == [chat |-> Null, page |-> 0]

\* the conversations the backend holds when an authenticated session starts
InitSrvChats == << Chat("c1", FALSE), Chat("c2", FALSE) >>
InitSrvCount ==
    [c \in ChatIds |-> IF c = "c1" THEN 4 ELSE IF c = "c2" THEN 2 ELSE 0]

ChatInit ==
    /\ isAuthenticated \in BOOLEAN
    /\ mounted = FALSE
    /\ chats = <<>>
    /\ currentChat = NullChat
    /\ messages = <<>>
    /\ isLoading = FALSE
    /\ isChatLoading = FALSE
    /\ error = Null
    /\ hasMoreMessages = FALSE
    /\ currentPage = 1
    /\ isSubmitting = FALSE
    /\ send = IdleSend
    /\ loads = EmptyBag
    /\ switches = EmptyBag
    /\ deletes = EmptyBag
    /\ chatsReq = FALSE
    /\ srvChats = IF isAuthenticated THEN InitSrvChats ELSE <<>>
    /\ srvCount = IF isAuthenticated THEN InitSrvCount ELSE [c \in ChatIds |-> 0]
    /\ now = 1
    /\ ops = 0
    /\ win = NoWin

(***************************************************************************)
(* Helpers.                                                                *)
(***************************************************************************)
\* a filter that keeps every chat
FilterKeepAll(s, id) == s

\* a blank conversation shown with an empty window
WelcomeWindowEmpty(t) == <<>>

\* createNewChat: setMessages([welcomeMessage])
WelcomeWindow(t) == << getWelcomeMessage(t) >>

\* a temporary chat that is not marked anonymous
tempChatNotAnonymous == Chat(Temp, FALSE)

\* tempChat of initializeAnonymousChat
tempChat == Chat(Temp, TRUE)

\* a loadChats that makes the last returned chat current
SelectCurrentLast(prevCurrentChat, list) ==
    IF Len(list) > 0 /\ prevCurrentChat = NullChat
    THEN list[Len(list)] ELSE prevCurrentChat

\* loadChats: if (chats.length > 0) setCurrentChat((prev) => prev ? prev :
\* chats[0])
SelectCurrent(prevCurrentChat, list) ==
    IF Len(list) > 0 /\ prevCurrentChat = NullChat
    THEN list[1] ELSE prevCurrentChat

\* a new chat that is put at the end of the list
AppendChat(chat, prev) == prev \o <<chat>>

\* setChats((prev) => [chat, ...prev])
PrependChat(chat, prev) == <<chat>> \o prev

\* a sendMessage that takes every response for a valid one
ValidResponseAlways(withMessage) == TRUE

\* the validation of sendMessage, negated: response && response.message
ValidResponse(withMessage) == withMessage

RECURSIVE FilterOut(_, _)
\* (prev || []).filter((chat) => chat.id !== chatId)
FilterOut(s, id) ==
    IF s = <<>> THEN <<>>
    ELSE IF Head(s).id = id THEN FilterOut(Tail(s), id)
    ELSE <<Head(s)>> \o FilterOut(Tail(s), id)

IdsOf(s) == { s[i].id : i \in 1..Len(s) }

ChatWithId(s, id) == CHOOSE c \in { s[i] : i \in 1..Len(s) } : c.id = id

One(x) == SetToBag({x})

\* page 1 of the conversation list
ServerChatsPage == SubSeq(srvChats, 1, Min(DEFAULT_PAGE_SIZE, Len(srvChats)))

\* loadMessages(chatId, page) up to its await: the request it issues
LoadRequest(chatId, page) == One([chatId |-> chatId, page |-> page])

\* The effect on [isAuthenticated, currentChat?.id]: a change of the current
\* chat's id in authenticated mode calls loadMessages(currentChat.id, 1).
EffectLoads(newChat) ==
    IF /\ isAuthenticated
       /\ newChat # NullChat
       /\ newChat.id # Temp
       /\ IdOf(newChat) # IdOf(currentChat)
    THEN LoadRequest(newChat.id, 1)
    ELSE EmptyBag

\* a merge that puts a later page after the window
MergeWindowAfter(prev, items, page) ==
    IF page = 1 THEN items ELSE prev \o items

\* a merge that keeps the window when page 1 arrives
MergeWindowKeepPrevious(prev, items, page) == items \o prev

\* the merge of loadMessages: page 1 replaces the window, a later page goes
\* before it
MergeWindow(prev, items, page) ==
    IF page = 1 THEN items ELSE items \o prev

\* a messageData that passes the current chat's id as it is
MessageDataChatIdRaw(cur) == IdOf(cur)

\* messageData.chat_id of sendMessage
MessageDataChatId(cur) ==
    IF IdOf(cur) = Temp THEN Undefined ELSE IdOf(cur)

\* a handleSubmit that does not look at isSubmitting
HandleSubmitGuardNoSubmitting(text) ==
    Trim(text) # <<>> /\ ~isLoading

\* the condition of handleSubmit
HandleSubmitGuard(text) ==
    Trim(text) # <<>> /\ ~isLoading /\ ~isSubmitting

\* the early return of sendMessage, negated
SendMessageGuard(text) ==
    ~(Trim(text) = <<>> \/ isLoading)

\* the window's provenance after a successful load of a page
WinAfterLoad(req) ==
    IF req.page = 1 THEN [chat |-> req.chatId, page |-> 1]
    ELSE IF win.chat = req.chatId /\ req.page > win.page
    THEN [chat |-> req.chatId, page |-> req.page]
    ELSE NoWin

(***************************************************************************)
(* ChatProvider: mount, conversation list.                                 *)
(***************************************************************************)
\* The mount effect: loadChats() up to its await when authenticated,
\* initializeAnonymousChat() otherwise.
Mount ==
    /\ ~mounted
    /\ mounted' = TRUE
    /\ IF isAuthenticated
       THEN /\ isChatLoading' = TRUE
            /\ chatsReq' = TRUE
            /\ UNCHANGED <<currentChat, messages>>
       ELSE /\ currentChat' = tempChat
            /\ messages' = << getWelcomeMessage(now) >>
            /\ isChatLoading' = FALSE
            /\ UNCHANGED chatsReq
    /\ UNCHANGED <<chats, isLoading, error, hasMoreMessages, currentPage,
                   isSubmitting, send, loads, switches, deletes, srvVars,
                   isAuthenticated, now, ops, win>>

\* loadChats after ChatService.getChats resolves
LoadChatsOk ==
    /\ chatsReq
    /\ LET list == ServerChatsPage
           next == SelectCurrent(currentChat, list)
           more == EffectLoads(next)
       IN /\ chats' = list
          /\ currentChat' = next
          /\ loads' = loads (+) more
          /\ isChatLoading' = (more # EmptyBag)
    /\ chatsReq' = FALSE
    /\ UNCHANGED <<messages, isLoading, error, hasMoreMessages, currentPage,
                   isSubmitting, send, switches, deletes, srvVars, auxVars>>

\* loadChats after ChatService.getChats rejects
LoadChatsFail(kind) ==
    /\ chatsReq
    /\ error' = getErrorMessage(handleChatError(ApiReject(kind)))
    /\ chats' = <<>>
    /\ isChatLoading' = FALSE
    /\ chatsReq' = FALSE
    /\ UNCHANGED <<currentChat, messages, isLoading, hasMoreMessages,
                   currentPage, isSubmitting, send, loads, switches, deletes,
                   srvVars, auxVars>>

(***************************************************************************)
(* ChatProvider: message pages.                                            *)
(***************************************************************************)
\* loadMessages after ChatService.getMessages resolves
LoadMessagesOk(req) ==
    /\ BagIn(req, loads)
    /\ req.chatId \in IdsOf(srvChats)
    /\ LET response == ServerPage(req.chatId, srvCount[req.chatId], req.page)
       IN /\ messages' = MergeWindow(messages, response.messages, req.page)
          /\ hasMoreMessages' = response.has_next
          /\ currentPage' = req.page
    /\ win' = WinAfterLoad(req)
    /\ isChatLoading' = FALSE
    /\ loads' = loads (-) One(req)
    /\ UNCHANGED <<chats, currentChat, isLoading, error, isSubmitting, send,
                   chatsReq, switches, deletes, srvVars, isAuthenticated,
                   mounted, now, ops>>

\* loadMessages after ChatService.getMessages rejects
LoadMessagesFail(req, kind) ==
    /\ BagIn(req, loads)
    /\ error' = getErrorMessage(handleChatError(ApiReject(kind)))
    /\ isChatLoading' = FALSE
    /\ loads' = loads (-) One(req)
    /\ UNCHANGED <<chats, currentChat, messages, isLoading, hasMoreMessages,
                   currentPage, isSubmitting, send, chatsReq, switches,
                   deletes, srvVars, auxVars>>

\* the guard of loadMoreMessages, negated
LoadMoreGuard ==
    ~(currentChat = NullChat \/ ~hasMoreMessages \/ isChatLoading)

\* the "Load More Messages" button is rendered and enabled
LoadMoreButton == mounted /\ hasMoreMessages /\ ~isLoading

\* loadMoreMessages up to the await of loadMessages
LoadMoreMessages ==
    /\ ops < MaxOps
    /\ ops' = ops + 1
    /\ LoadMoreButton
    /\ LoadMoreGuard
    /\ loads' = loads (+) LoadRequest(currentChat.id, currentPage + 1)
    /\ isChatLoading' = TRUE
    /\ UNCHANGED <<chats, currentChat, messages, isLoading, error,
                   hasMoreMessages, currentPage, isSubmitting, send, chatsReq,
                   switches, deletes, srvVars, runVars>>

\* loadMoreMessages returning at its guard
LoadMoreDropped ==
    /\ LoadMoreButton
    /\ ~LoadMoreGuard
    /\ UNCHANGED chatVars

(***************************************************************************)
(* ChatProvider: new, switch, delete.  The sidebar and the New Chat button *)
(* exist for an authenticated user only.                                   *)
(***************************************************************************)
\* createNewChat
CreateNewChat ==
    /\ ops < MaxOps
    /\ ops' = ops + 1
    /\ mounted /\ isAuthenticated
    /\ currentChat' = NullChat
    /\ messages' = WelcomeWindow(now)
    /\ win' = NoWin
    /\ UNCHANGED <<chats, isLoading, isChatLoading, error, hasMoreMessages,
                   currentPage, isSubmitting, flightVars, srvVars,
                   isAuthenticated, mounted, now>>

\* clearError, called by the effect of ChatInterface once an error shows
ClearError ==
    /\ error # Null
    /\ error' = Null
    /\ UNCHANGED <<chats, currentChat, messages, isLoading, isChatLoading,
                   hasMoreMessages, currentPage, isSubmitting, flightVars,
                   srvVars, auxVars>>

\* switchChat up to the await of ChatService.getChat
SwitchChat(chatId) ==
    /\ ops < MaxOps
    /\ ops' = ops + 1
    /\ mounted /\ isAuthenticated
    /\ chatId \in IdsOf(chats)
    /\ isChatLoading' = TRUE
    /\ error' = Null
    /\ switches' = switches (+) One(chatId)
    /\ UNCHANGED <<chats, currentChat, messages, isLoading, hasMoreMessages,
                   currentPage, isSubmitting, send, loads, chatsReq, deletes,
                   srvVars, runVars>>

\* switchChat after getChat resolves: it sets the chat, calls loadMessages,
\* and the change of currentChat?.id runs the effect
SwitchChatOk(chatId) ==
    /\ BagIn(chatId, switches)
    /\ chatId \in IdsOf(srvChats)
    /\ LET chat == ChatWithId(srvChats, chatId)
           more == LoadRequest(chatId, 1) (+) EffectLoads(chat)
       IN /\ currentChat' = chat
          /\ loads' = loads (+) more
    /\ currentPage' = 1
    /\ isChatLoading' = TRUE
    /\ switches' = switches (-) One(chatId)
    /\ UNCHANGED <<chats, messages, isLoading, error, hasMoreMessages,
                   isSubmitting, send, chatsReq, deletes, srvVars, auxVars>>

\* switchChat after getChat rejects
SwitchChatFail(chatId, kind) ==
    /\ BagIn(chatId, switches)
    /\ error' = getErrorMessage(handleChatError(ApiReject(kind)))
    /\ isChatLoading' = FALSE
    /\ switches' = switches (-) One(chatId)
    /\ UNCHANGED <<chats, currentChat, messages, isLoading, hasMoreMessages,
                   currentPage, isSubmitting, send, loads, chatsReq, deletes,
                   srvVars, auxVars>>

\* deleteChat up to the await of ChatService.deleteChat; its closure holds
\* the currentChat?.id of the render it was created in
DeleteChat(chatId) ==
    /\ ops < MaxOps
    /\ ops' = ops + 1
    /\ mounted /\ isAuthenticated
    /\ chatId \in IdsOf(chats)
    /\ isLoading' = TRUE
    /\ error' = Null
    /\ deletes' = deletes (+) One([chatId |-> chatId, cur |-> IdOf(currentChat)])
    /\ UNCHANGED <<chats, currentChat, messages, isChatLoading,
                   hasMoreMessages, currentPage, isSubmitting, send, loads,
                   chatsReq, switches, srvVars, runVars>>

\* deleteChat after the backend deleted the chat: the setChats updater
DeleteChatOk(req) ==
    /\ BagIn(req, deletes)
    /\ req.chatId \in IdsOf(srvChats)
    /\ LET updatedChats == FilterOut(chats, req.chatId)
       IN /\ chats' = updatedChats
          /\ srvChats' = FilterOut(srvChats, req.chatId)
          /\ IF req.cur = req.chatId
             THEN IF Len(updatedChats) > 0
                  THEN LET nextChat == updatedChats[1]
                           more == LoadRequest(nextChat.id, 1)
                                     (+) EffectLoads(nextChat)
                       IN /\ currentChat' = nextChat
                          /\ currentPage' = 1
                          /\ loads' = loads (+) more
                          /\ isChatLoading' = TRUE
                          /\ UNCHANGED <<messages, win>>
                  ELSE /\ currentChat' = NullChat
                       /\ messages' = WelcomeWindow(now)
                       /\ win' = NoWin
                       /\ UNCHANGED <<currentPage, loads, isChatLoading>>
             ELSE UNCHANGED <<currentChat, currentPage, loads, isChatLoading,
                              messages, win>>
    /\ isLoading' = FALSE
    /\ deletes' = deletes (-) One(req)
    /\ UNCHANGED <<error, hasMoreMessages, isSubmitting, send, chatsReq,
                   switches, srvCount, isAuthenticated, mounted, now, ops>>

\* deleteChat after ChatService.deleteChat rejects
DeleteChatFail(req, kind) ==
    /\ BagIn(req, deletes)
    /\ error' = getErrorMessage(handleChatError(ApiReject(kind)))
    /\ isLoading' = FALSE
    /\ deletes' = deletes (-) One(req)
    /\ UNCHANGED <<chats, currentChat, messages, isChatLoading,
                   hasMoreMessages, currentPage, isSubmitting, send, loads,
                   chatsReq, switches, srvVars, auxVars>>

(***************************************************************************)
(* MessageInput.handleSubmit and ChatProvider.sendMessage.                 *)
(***************************************************************************)
\* setMessages((prev) => [...prev, userMessage])
AppendUser(prev, msg) == Append(prev, msg)

\* a reply that takes the place of the last message of the window
AppendReplyInPlace(prev, msg) ==
    SubSeq(prev, 1, Len(prev) - 1) \o <<msg>>

\* setMessages((prev) => [...prev, response.message])
AppendReply(prev, msg) == Append(prev, msg)

\* an apology that takes the place of the last message of the window
AppendApologyInPlace(prev, msg) ==
    SubSeq(prev, 1, Len(prev) - 1) \o <<msg>>

\* setMessages((prev) => [...prev, errorMsg])
AppendApology(prev, msg) == Append(prev, msg)

\* handleSubmit passes its guard and calls sendMessage, which appends the
\* user message and makes the first call of ChatService.sendMessage
SendAccept(text) ==
    /\ ops < MaxOps
    /\ ops' = ops + 1
    /\ mounted
    /\ HandleSubmitGuard(text)
    /\ SendMessageGuard(Trim(text))
    /\ messages' = AppendUser(messages, UserMessage(currentChat, Trim(text), now))
    /\ isSubmitting' = TRUE
    /\ isLoading' = TRUE
    /\ error' = Null
    /\ send' = [pc |-> "posting", chatId |-> IdOf(currentChat),
                body |-> MessageDataChatId(currentChat), userAt |-> now,
                retryCount |-> 0, attempts |-> 1, fails |-> <<>>,
                delays |-> <<>>, result |-> "none"]
    /\ now' = now + 1
    /\ win' = NoWin
    /\ UNCHANGED <<chats, currentChat, isChatLoading, hasMoreMessages,
                   currentPage, loads, chatsReq, switches, deletes, srvVars,
                   isAuthenticated, mounted>>

\* handleSubmit or sendMessage returns at its guard
SendRejected(text) ==
    /\ mounted
    /\ ~(HandleSubmitGuard(text) /\ SendMessageGuard(Trim(text)))
    /\ UNCHANGED chatVars

\* a finally block that leaves isLoading as it is
FinallyIsLoadingKept == isLoading

\* the finally of sendMessage: setIsLoading(false)
FinallyIsLoading == FALSE

\* the record of a sendMessage call that has returned
Settled(s, result, kind) ==
    [IdleSend EXCEPT !.result = result, !.attempts = s.attempts,
                     !.userAt = s.userAt,
                     !.fails = IF kind = "none" THEN s.fails
                               ELSE Append(s.fails, kind),
                     !.delays = s.delays]

\* the catch and finally of sendMessage, and the finally of handleSubmit
SendFailed(e, kind) ==
    /\ error' = getErrorMessage(e)
    /\ messages' = AppendApology(messages, ErrorMessage(send.chatId, now))
    /\ isLoading' = FinallyIsLoading
    /\ isSubmitting' = FALSE
    /\ send' = Settled(send, "failed", kind)
    /\ now' = now + 1
    /\ win' = NoWin
    /\ UNCHANGED <<chats, currentChat, isChatLoading, hasMoreMessages,
                   currentPage, loads, chatsReq, switches, deletes,
                   isAuthenticated, mounted, ops>>

\* a call of ChatService.sendMessage rejects: the retry loop waits and calls
\* again, or rethrows to the catch of sendMessage
PostFail(kind) ==
    /\ send.pc = "posting"
    /\ LET e == SendMessageError(kind)
       IN IF ShouldRetry(e, send.retryCount)
          THEN /\ send' = [send EXCEPT
                             !.retryCount = @ + 1,
                             !.attempts = @ + 1,
                             !.fails = Append(@, kind),
                             !.delays = Append(@, BackoffUnit * (send.retryCount + 1))]
               /\ UNCHANGED <<reactVars, loads, chatsReq, switches, deletes,
                              auxVars>>
          ELSE SendFailed(e, kind)
    /\ UNCHANGED srvVars

\* the number of conversations the backend has created for this client
Created == Cardinality({ i \in 1..Len(NewChatIds) : srvCount[NewChatIds[i]] > 0 })

\* the conversation the backend answers the send in progress in: a new one
\* when the request names none
ResponseChat ==
    IF send.body = Undefined
    THEN Chat(NewChatIds[Created + 1], ~isAuthenticated)
    ELSE ChatWithId(srvChats, send.body)

\* a call of ChatService.sendMessage resolves.  The backend stores the
\* user message and its reply, in a new conversation when the request names
\* none; the response carries the reply unless it is malformed, and may
\* carry the conversation.
PostOk(withMessage, withChat) ==
    /\ send.pc = "posting"
    /\ send.body = Undefined \/ send.body \in IdsOf(srvChats)
    /\ send.body = Undefined => Created < Len(NewChatIds)
    /\ LET chat == ResponseChat
           id == chat.id
           reply == ServerMessage(id, srvCount[id] + 2)
       IN IF ~ValidResponse(withMessage)
          THEN /\ SendFailed([name |-> "Error",
                              message |-> "Invalid response from server"],
                             "malformed")
               /\ UNCHANGED srvVars
          ELSE /\ srvCount' = [srvCount EXCEPT ![id] = @ + 2]
               /\ srvChats' = IF send.body = Undefined
                              THEN <<chat>> \o srvChats ELSE srvChats
               /\ messages' = AppendReply(messages, reply)
               /\ IF withChat /\ chat.id # send.chatId
                  THEN LET more == EffectLoads(chat)
                       IN /\ currentChat' = chat
                          /\ chats' = PrependChat(chat, chats)
                          /\ loads' = loads (+) more
                          /\ isChatLoading' = IF more # EmptyBag THEN TRUE
                                              ELSE isChatLoading
                  ELSE UNCHANGED <<currentChat, chats, loads, isChatLoading>>
               /\ isLoading' = FinallyIsLoading
               /\ isSubmitting' = FALSE
               /\ send' = Settled(send, "ok", "none")
               /\ win' = NoWin
               /\ UNCHANGED <<error, hasMoreMessages, currentPage, chatsReq,
                              switches, deletes, isAuthenticated, mounted,
                              now, ops>>

(***************************************************************************)
(* lib/api.ts: the token pair in localStorage and the axios interceptors.  *)
(***************************************************************************)
VARIABLES
    \* localStorage: the TokenPair entry (the number of its issue, or NoTokens)
    \* and the User entry (a profile snapshot, or NoUser)
    storedTokens, storedUser,
    \* the requests made through apiClient: url, position, the _retry mark
    \* and the bearer credential of the Authorization header
    reqs,
    \* window.location.href was set to "/"
    redirected,
    \* the token pairs the backend has issued so far
    issued

guardVars == <<storedTokens, storedUser, reqs, redirected, issued>>

\* number of requests made through apiClient in one run
MaxReqs == 2

NoTokens == 0

NoUser == Null

\* the snapshots of the user's profile: the backend's may have changed since
\* the one in localStorage was taken
Users == {"profile1", "profile2"}

\* the statuses of the failed responses drawn: none received, 401, 500
Statuses == {0, 401, 500}

\* the urls requested, as path segments
Urls == { <<"auth", "signin">>, <<"auth", "me">>, <<"chat", "message">> }

HasSegment(url, seg) == \E i \in 1..Len(url) : url[i] = seg

\* url.includes("/auth/") && (url.includes("/login") || ...)
isAuthEndpoint(url) ==
    /\ \E i \in 1..(Len(url) - 1) : url[i] = "auth"
    /\ \E seg \in {"login", "register", "signin", "forgot-password",
                   "reset-password"} : HasSegment(url, seg)

NewReq == [pc |-> "new", url |-> <<>>, retry |-> FALSE, bearer |-> NoTokens,
           refreshWith |-> NoTokens, issues |-> 0, refreshes |-> 0]

GuardInit ==
    /\ storedTokens \in {NoTokens, 1}
    /\ storedUser \in {NoUser, "profile1"}
    /\ reqs = [r \in 1..MaxReqs |-> NewReq]
    /\ redirected = FALSE
    /\ issued = 1

\* the request interceptor, for the stored pair `tokens`
Attach(req, tokens) ==
    [req EXCEPT !.bearer = IF tokens # NoTokens THEN tokens ELSE @]

\* a request interceptor that takes every endpoint for a protected one
UnauthenticatedAnywhere(url, tokens) == tokens = NoTokens

\* the request interceptor signals "unauthenticated"
Unauthenticated(url, tokens) == tokens = NoTokens /\ ~isAuthEndpoint(url)

\* apiClient.request(url): the request interceptor runs and the request
\* leaves
Request(r, url) ==
    /\ reqs[r].pc = "new"
    /\ reqs' = [reqs EXCEPT ![r] = [Attach(@, storedTokens) EXCEPT
                                      !.pc = "sent", !.url = url,
                                      !.issues = @ + 1]]
    /\ IF Unauthenticated(url, storedTokens)
       THEN /\ storedTokens' = NoTokens
            /\ redirected' = TRUE
       ELSE UNCHANGED <<storedTokens, redirected>>
    /\ UNCHANGED <<storedUser, issued>>

\* the response interceptor's success handler
ResponseOk(r) ==
    /\ reqs[r].pc = "sent"
    /\ reqs' = [reqs EXCEPT ![r].pc = "done"]
    /\ UNCHANGED <<storedTokens, storedUser, redirected, issued>>

\* a refresh guard that does not look at _retry
RefreshGuardNoRetryMark(req, status) ==
    status = 401 /\ ~isAuthEndpoint(req.url)

\* the condition under which the error handler starts a refresh
RefreshGuard(req, status) ==
    status = 401 /\ ~req.retry /\ ~isAuthEndpoint(req.url)

\* the response interceptor's error handler up to its await of
\* refreshTokens, or to its rejection with transformError(error)
ResponseError(r, status) ==
    /\ reqs[r].pc = "sent"
    /\ IF RefreshGuard(reqs[r], status)
       THEN IF storedTokens # NoTokens
            THEN reqs' = [reqs EXCEPT ![r].retry = TRUE,
                                      ![r].pc = "refreshing",
                                      ![r].refreshWith = storedTokens,
                                      ![r].refreshes = @ + 1]
            ELSE reqs' = [reqs EXCEPT ![r].retry = TRUE, ![r].pc = "failed"]
       ELSE reqs' = [reqs EXCEPT ![r].pc = "failed"]
    /\ UNCHANGED <<storedTokens, storedUser, redirected, issued>>

\* a storeTokens that writes nothing
storeTokensSkipped(newTokens) == UNCHANGED storedTokens

\* storeTokens
storeTokens(newTokens) == storedTokens' = newTokens

\* refreshTokens resolved: storeTokens(newTokens), then the original request
\* is made again through apiClient and its request interceptor
RefreshOk(r) ==
    /\ reqs[r].pc = "refreshing"
    /\ issued' = issued + 1
    /\ storeTokens(issued')
    /\ reqs' = [reqs EXCEPT ![r] = [Attach([@ EXCEPT !.bearer = issued'],
                                           storedTokens')
                                      EXCEPT !.pc = "sent",
                                             !.issues = @ + 1]]
    /\ UNCHANGED <<storedUser, redirected>>

\* clearStoredTokens
clearStoredTokens == storedTokens' = NoTokens

\* refreshTokens rejected: the catch of the error handler
RefreshFail(r) ==
    /\ reqs[r].pc = "refreshing"
    /\ IF ~isAuthEndpoint(reqs[r].url)
       THEN clearStoredTokens /\ redirected' = TRUE
       ELSE UNCHANGED <<storedTokens, redirected>>
    /\ reqs' = [reqs EXCEPT ![r].pc = "failed"]
    /\ UNCHANGED <<storedUser, issued>>

(***************************************************************************)
(* AuthProvider: the session read from localStorage on mount, signin and   *)
(* logout.                                                                 *)
(***************************************************************************)
VARIABLES
    \* the useState cells of AuthProvider
    user, isInitializing, authLoading, authError,
    \* the position of initializeAuth, and of the signin, login, register or
    \* logout call in progress
    initPc, authPc,
    \* the profile the backend returns for the current user
    srvUser,
    \* the number of signin and logout calls started
    authOps

authVars == <<user, isInitializing, authLoading, authError, initPc, authPc,
              srvUser, authOps>>

\* signin, login, register and logout calls started in one run
MaxAuthOps == 3

AuthInit ==
    /\ user = NoUser
    /\ isInitializing = TRUE
    /\ authLoading = FALSE
    /\ authError = Null
    /\ initPc = "mount"
    /\ authPc = "idle"
    /\ srvUser \in Users
    /\ authOps = 0

\* a removal of the TokenPair entry alone
RemoveEntriesTokensOnly ==
    /\ storedTokens' = NoTokens
    /\ UNCHANGED storedUser

\* storage.remove(STORAGE_KEYS.USER); storage.remove(STORAGE_KEYS.TOKENS)
RemoveEntries ==
    /\ storedUser' = NoUser
    /\ storedTokens' = NoTokens

\* a finally of initializeAuth that is not there
InitializeFinallySkipped == UNCHANGED isInitializing

\* the finally of initializeAuth
InitializeFinally == isInitializing' = FALSE

\* a session that is activated with the user found in localStorage
ValidatedUserCached(savedUser, currentUser) == savedUser

\* the user initializeAuth activates the session with
ValidatedUser(savedUser, currentUser) == currentUser

\* initializeAuth, run by the mount effect, up to its await of
\* AuthService.getCurrentUser or to its end; `readThrows` is storage.get
\* throwing
InitializeAuth(readThrows) ==
    /\ initPc = "mount"
    /\ IF readThrows
       THEN /\ RemoveEntries
            /\ InitializeFinally
            /\ initPc' = "done"
       ELSE IF storedUser # NoUser /\ storedTokens # NoTokens
       THEN /\ isInitializing' = TRUE
            /\ initPc' = "validating"
            /\ UNCHANGED <<storedUser, storedTokens>>
       ELSE /\ InitializeFinally
            /\ initPc' = "done"
            /\ UNCHANGED <<storedUser, storedTokens>>
    /\ UNCHANGED <<user, authLoading, authError, authPc, srvUser, authOps>>

\* initializeAuth after AuthService.getCurrentUser resolves
ValidateOk ==
    /\ initPc = "validating"
    /\ user' = ValidatedUser(storedUser, srvUser)
    /\ InitializeFinally
    /\ initPc' = "done"
    /\ UNCHANGED <<storedUser, storedTokens, authLoading, authError, authPc,
                   srvUser, authOps>>

\* initializeAuth after AuthService.getCurrentUser rejects
ValidateFail ==
    /\ initPc = "validating"
    /\ RemoveEntries
    /\ user' = NoUser
    /\ InitializeFinally
    /\ initPc' = "done"
    /\ UNCHANGED <<authLoading, authError, authPc, srvUser, authOps>>

\* an application shell that renders the header and the routes at once
AppRenderedAtOnce == TRUE

\* the routes, the header and the sign-in dialog are rendered
AppRendered == ~isInitializing

\* signin up to its await of AuthService.signin
Signin ==
    /\ AppRendered
    /\ user = NoUser
    /\ ~authLoading
    /\ authOps < MaxAuthOps
    /\ authOps' = authOps + 1
    /\ authLoading' = TRUE
    /\ authError' = Null
    /\ authPc' = "signin"
    /\ UNCHANGED <<user, isInitializing, initPc, srvUser, storedUser,
                   storedTokens, issued>>

\* signin after AuthService.signin resolves: the tokens are stored, then
\* AuthService.getCurrentUser is awaited
SigninTokens ==
    /\ authPc = "signin"
    /\ issued' = issued + 1
    /\ storedTokens' = issued'
    /\ authPc' = "me"
    /\ UNCHANGED <<user, isInitializing, authLoading, authError, initPc,
                   srvUser, authOps, storedUser>>

\* signin after AuthService.getCurrentUser resolves
SigninOk ==
    /\ authPc = "me"
    /\ storedUser' = srvUser
    /\ user' = srvUser
    /\ authLoading' = FALSE
    /\ authPc' = "idle"
    /\ UNCHANGED <<isInitializing, authError, initPc, srvUser, authOps,
                   storedTokens, issued>>

\* signin after AuthService.signin or AuthService.getCurrentUser rejects
SigninFail ==
    /\ authPc \in {"signin", "me"}
    /\ authError' = "An error occurred"
    /\ authLoading' = FALSE
    /\ authPc' = "idle"
    /\ UNCHANGED <<user, isInitializing, initPc, srvUser, authOps,
                   storedUser, storedTokens, issued>>

\* the two calls that obtain a token pair and store it only after the
\* current user was fetched
LoginKinds == {"login", "register"}

\* login or register up to its await of AuthService.login or
\* AuthService.register; they are called from a component that uses the
\* context, which is rendered inside the application shell
Login(kind) ==
    /\ AppRendered
    /\ authPc = "idle"
    /\ authOps < MaxAuthOps
    /\ authOps' = authOps + 1
    /\ authLoading' = TRUE
    /\ authError' = Null
    /\ authPc' = kind
    /\ UNCHANGED <<user, isInitializing, initPc, srvUser, storedUser,
                   storedTokens, issued>>

\* API_ENDPOINTS.AUTH.ME
MeUrl == <<"auth", "me">>

\* the request of AuthService.getCurrentUser as the request interceptor
\* lets it leave, for the stored pair `tokens`
MeRequest(tokens) ==
    [Attach(NewReq, tokens) EXCEPT !.pc = "sent", !.url = MeUrl, !.issues = 1]

\* login or register after the credential call resolves: the tokens are
\* held in a local, and AuthService.getCurrentUser is called and awaited;
\* its request passes the request interceptor with what localStorage holds
LoginTokens ==
    /\ authPc \in LoginKinds
    /\ issued' = issued + 1
    /\ authPc' = "loginMe"
    /\ reqs' = [reqs EXCEPT ![1] = MeRequest(storedTokens)]
    /\ IF Unauthenticated(MeUrl, storedTokens)
       THEN /\ storedTokens' = NoTokens
            /\ redirected' = TRUE
       ELSE UNCHANGED <<storedTokens, redirected>>
    /\ UNCHANGED <<user, isInitializing, authLoading, authError, initPc,
                   srvUser, authOps, storedUser>>

\* login or register after AuthService.getCurrentUser resolves
LoginOk ==
    /\ authPc = "loginMe"
    /\ storedTokens' = issued
    /\ storedUser' = srvUser
    /\ user' = srvUser
    /\ authLoading' = FALSE
    /\ authPc' = "idle"
    /\ reqs' = [reqs EXCEPT ![1].pc = "done"]
    /\ UNCHANGED <<isInitializing, authError, initPc, srvUser, authOps,
                   issued, redirected>>

\* login or register after the credential call or
\* AuthService.getCurrentUser rejects
LoginFail ==
    /\ authPc \in LoginKinds \cup {"loginMe"}
    /\ authError' = "An error occurred"
    /\ authLoading' = FALSE
    /\ authPc' = "idle"
    /\ reqs' = IF authPc = "loginMe" THEN [reqs EXCEPT ![1].pc = "failed"]
               ELSE reqs
    /\ UNCHANGED <<user, isInitializing, initPc, srvUser, authOps,
                   storedUser, storedTokens, issued, redirected>>

\* logout up to its await of AuthService.logout
Logout ==
    /\ AppRendered
    /\ user # NoUser
    /\ ~authLoading
    /\ authOps < MaxAuthOps
    /\ authOps' = authOps + 1
    /\ authLoading' = TRUE
    /\ authError' = Null
    /\ authPc' = "logout"
    /\ UNCHANGED <<user, isInitializing, initPc, srvUser, storedUser,
                   storedTokens, issued>>

\* the finally of logout, whether the backend call succeeded or failed:
\* AuthService.logout catches the failure and resolves
LogoutDone(backendOk) ==
    /\ authPc = "logout"
    /\ RemoveEntries
    /\ user' = NoUser
    /\ authLoading' = FALSE
    /\ authPc' = "idle"
    /\ UNCHANGED <<isInitializing, authError, initPc, srvUser, authOps,
                   issued>>

(***************************************************************************)
(* lib/api.ts: the error normaliser applied to the failure a request of    *)
(* apiClient was rejected with.                                            *)
(***************************************************************************)
VARIABLES
    \* the value the response interceptor's error handler caught
    caught,
    \* what the handler rejected with: empty until transformError has run
    rejected

normVars == <<caught, rejected>>

\* the failed responses drawn: status, data?.detail and data?.type
Responses ==
    [status : {400, 401, 404, 500},
     detail : {Undefined, "", "Not authenticated"},
     type : {Undefined, "validation_error"}]

\* the fields of an Error object, or none for a plain object
ErrorFields == {<<>>} \cup [name : {"Error"}, message : {"", "boom"}]

\* the request of a failure that has one, or none
RequestFields == {<<>>, [request |-> TRUE]}

\* the response of a failure that has one, or none
ResponseFields == {<<>>} \cup [response : Responses]

\* the values caught: objects with or without a request and a response,
\* that are Error objects or not, and thrown values that are no objects
Failures ==
    { ef @@ qf @@ rf : ef \in ErrorFields, qf \in RequestFields,
                        rf \in ResponseFields }
    \cup { [primitive |-> Null], [primitive |-> "thrown"] }

NormInit ==
    /\ caught \in Failures
    /\ rejected = <<>>

\* no failure is being normalised
NormIdle ==
    /\ caught = [primitive |-> Null]
    /\ rejected = <<>>

\* return Promise.reject(transformError(error))
Reject ==
    /\ rejected = <<>>
    /\ rejected' = <<transformError(caught)>>
    /\ UNCHANGED caught

(***************************************************************************)
(* Specifications: the conversation orchestrator over a backend whose      *)
(* calls resolve or reject, and the token guard over requests whose        *)
(* responses succeed or fail.                                              *)
(***************************************************************************)
vars == <<chatVars, guardVars, authVars, normVars>>

GuardIdle ==
    /\ storedTokens = NoTokens
    /\ storedUser = NoUser
    /\ reqs = [r \in 1..MaxReqs |-> NewReq]
    /\ redirected = FALSE
    /\ issued = 1

\* the AuthProvider after initializeAuth found no session
AuthIdle ==
    /\ user = NoUser
    /\ isInitializing = FALSE
    /\ authLoading = FALSE
    /\ authError = Null
    /\ initPc = "done"
    /\ authPc = "idle"
    /\ srvUser = "profile1"
    /\ authOps = 0

Init == ChatInit /\ GuardIdle /\ AuthIdle /\ NormIdle

\* a step of the orchestrator leaves the token guard alone
InChat(A) == A /\ UNCHANGED <<guardVars, authVars, normVars>>

Next ==
    \/ InChat(Mount)
    \/ InChat(LoadChatsOk)
    \/ \E kind \in LoadFailKinds : InChat(LoadChatsFail(kind))
    \/ \E req \in BagToSet(loads) : InChat(LoadMessagesOk(req))
    \/ \E req \in BagToSet(loads), kind \in LoadFailKinds : InChat(LoadMessagesFail(req, kind))
    \/ InChat(LoadMoreMessages)
    \/ InChat(LoadMoreDropped)
    \/ InChat(CreateNewChat)
    \/ InChat(ClearError)
    \/ \E c \in ChatIds : InChat(SwitchChat(c))
    \/ \E c \in BagToSet(switches) : InChat(SwitchChatOk(c))
    \/ \E c \in BagToSet(switches), kind \in LoadFailKinds : InChat(SwitchChatFail(c, kind))
    \/ \E c \in ChatIds : InChat(DeleteChat(c))
    \/ \E req \in BagToSet(deletes) : InChat(DeleteChatOk(req))
    \/ \E req \in BagToSet(deletes), kind \in LoadFailKinds : InChat(DeleteChatFail(req, kind))
    \/ \E text \in Texts : InChat(SendAccept(text))
    \/ \E text \in Texts : InChat(SendRejected(text))
    \/ \E kind \in FailKinds : InChat(PostFail(kind))
    \/ \E withMessage \in BOOLEAN, withChat \in BOOLEAN : InChat(PostOk(withMessage, withChat))

Spec == Init /\ [][Next]_vars

\* no request of the orchestrator is in flight
Quiescent ==
    /\ ~chatsReq
    /\ loads = EmptyBag
    /\ switches = EmptyBag
    /\ deletes = EmptyBag
    /\ send.pc # "posting"

\* The authenticated orchestrator used one operation at a time: the user
\* starts an operation only when no request is in flight, and every request
\* resolves.
NextSeq ==
    \/ InChat(Mount)
    \/ InChat(LoadChatsOk)
    \/ \E req \in BagToSet(loads) : InChat(LoadMessagesOk(req))
    \/ InChat(Quiescent /\ LoadMoreMessages)
    \/ InChat(Quiescent /\ CreateNewChat)
    \/ \E c \in ChatIds : InChat(Quiescent /\ SwitchChat(c))
    \/ \E c \in BagToSet(switches) : InChat(SwitchChatOk(c))
    \/ \E text \in Texts : InChat(Quiescent /\ SendAccept(text))
    \/ \E withChat \in BOOLEAN : InChat(PostOk(TRUE, withChat))

\* a call of ChatService.sendMessage settles
PostStep ==
    \/ \E kind \in FailKinds : PostFail(kind)
    \/ \E withMessage \in BOOLEAN, withChat \in BOOLEAN :
         PostOk(withMessage, withChat)

\* every call of the backend made by sendMessage, and every backoff delay
\* before the next one, comes to its end
SpecSendLive == Spec /\ WF_vars(InChat(PostStep))

InitSeq == Init /\ isAuthenticated

SpecSeq == InitSeq /\ [][NextSeq]_vars

InitGuard == ChatInit /\ isAuthenticated /\ GuardInit /\ AuthIdle /\ NormIdle

\* a step of the token guard leaves the orchestrator alone
InGuard(A) == A /\ UNCHANGED <<chatVars, authVars, normVars>>

NextGuard ==
    \/ \E r \in 1..MaxReqs, url \in Urls : InGuard(Request(r, url))
    \/ \E r \in 1..MaxReqs : InGuard(ResponseOk(r))
    \/ \E r \in 1..MaxReqs, status \in Statuses : InGuard(ResponseError(r, status))
    \/ \E r \in 1..MaxReqs : InGuard(RefreshOk(r))
    \/ \E r \in 1..MaxReqs : InGuard(RefreshFail(r))

SpecGuard == InitGuard /\ [][NextGuard]_vars

InitAuth ==
    /\ ChatInit /\ ~isAuthenticated
    /\ storedTokens \in {NoTokens, 1}
    /\ storedUser \in {NoUser} \cup Users
    /\ reqs = [r \in 1..MaxReqs |-> NewReq]
    /\ redirected = FALSE
    /\ issued = 1
    /\ AuthInit
    /\ NormIdle

\* a step of the AuthProvider leaves the orchestrator, the requests in
\* flight and the redirect alone
InAuth(A) == A /\ UNCHANGED <<chatVars, reqs, redirected, normVars>>

\* a step of login or register around its current-user request leaves the
\* orchestrator alone
InLogin(A) == A /\ UNCHANGED <<chatVars, normVars>>

\* a step of initializeAuth
InitializeStep ==
    \/ \E readThrows \in BOOLEAN :
         InitializeAuth(readThrows) /\ UNCHANGED issued
    \/ ValidateOk /\ UNCHANGED issued
    \/ ValidateFail /\ UNCHANGED issued

NextAuth ==
    \/ \E readThrows \in BOOLEAN :
         InAuth(InitializeAuth(readThrows) /\ UNCHANGED issued)
    \/ InAuth(ValidateOk /\ UNCHANGED issued)
    \/ InAuth(ValidateFail /\ UNCHANGED issued)
    \/ InAuth(Signin)
    \/ InAuth(SigninTokens)
    \/ InAuth(SigninOk)
    \/ InAuth(SigninFail)
    \/ \E kind \in LoginKinds : InAuth(Login(kind))
    \/ InLogin(LoginTokens)
    \/ InLogin(LoginOk)
    \/ InLogin(LoginFail)
    \/ InAuth(Logout)
    \/ \E backendOk \in BOOLEAN : InAuth(LogoutDone(backendOk))

SpecAuth == InitAuth /\ [][NextAuth]_vars

\* the mount effect runs, and the current-user call it awaits settles
SpecAuthLive == SpecAuth /\ WF_vars(InAuth(InitializeStep))

InitNorm ==
    /\ ChatInit /\ isAuthenticated
    /\ GuardIdle
    /\ AuthIdle
    /\ NormInit

\* a step of the normaliser leaves everything else alone
InNorm(A) == A /\ UNCHANGED <<chatVars, guardVars, authVars>>

NextNorm == InNorm(Reject)

\* the error handler normalises the failure it caught, whatever it caught
SpecNorm == InitNorm /\ [][NextNorm]_vars

(***************************************************************************)
(* Properties.                                                             *)
(***************************************************************************)
\* the requests waiting for refreshTokens to settle
Refreshing == { r \in 1..MaxReqs : reqs[r].pc = "refreshing" }

\* C1: at most one token refresh is in flight at any moment, however many
\* requests were answered 401 while a token pair is stored.
SingleFlightRefresh == Cardinality(Refreshing) <= 1

\* the failure is normalised by transformError to the NetworkError class
NetworkFailure(kind) ==
    /\ kind \in FailKinds
    /\ IsNetworkError(ApiReject(kind))

\* C2: a send all of whose attempts failed with the NetworkError class has
\* made exactly 3 calls of the backend, having waited 1 and then 2 backoff
\* units between them, before it is given up as failed.
NetworkErrorThreeAttempts ==
    (/\ send.result = "failed"
     /\ send.fails # <<>>
     /\ \A i \in 1..Len(send.fails) : NetworkFailure(send.fails[i]))
    => (/\ send.attempts = maxRetries + 1
        /\ send.delays = <<BackoffUnit, 2 * BackoffUnit>>)

\* C3: a send whose first call of the backend failed with an error that is
\* not of the NetworkError class has made exactly one call, waited for no
\* backoff, and is finished as failed.
NonNetworkErrorOneAttempt ==
    (/\ send.fails # <<>>
     /\ send.fails[1] \in FailKinds
     /\ ~NetworkFailure(send.fails[1]))
    => (/\ send.attempts = 1
        /\ send.delays = <<>>
        /\ send.pc = "idle"
        /\ send.result = "failed")

NonNetworkErrorOneAttemptWitness ==
    /\ send.result = "failed"
    /\ send.attempts = 1
    /\ send.fails = <<"http_500">>

\* the step on which the sendMessage call in progress ends in failure
SendFailureStep ==
    /\ send.pc = "posting"
    /\ send'.pc = "idle"
    /\ send'.result = "failed"

\* the positions of the window that hold the user message of the send `s`
UserMessageAt(window, s) ==
    { i \in 1..Len(window) :
        window[i].id = [pfx |-> "user", chat |-> "local", n |-> s.userAt] }

\* C4: the step on which a send finally fails appends exactly one
\* assistant-role apology to the window and removes nothing from it, so the
\* send's user message, in the window before the step, is still there and
\* before the apology; and it sets the error to a non-null value.
FailureAppendsOneApology ==
    [][SendFailureStep =>
        /\ Len(messages') = Len(messages) + 1
        /\ SubSeq(messages', 1, Len(messages)) = messages
        /\ messages'[Len(messages')].role = "assistant"
        /\ messages'[Len(messages')].id.pfx = "error"
        /\ UserMessageAt(messages, send) \subseteq UserMessageAt(messages', send)
        /\ \A i \in UserMessageAt(messages', send) : i < Len(messages')
        /\ error' # Null]_vars

FailureAppendsOneApologyWitness ==
    /\ send.result = "failed"
    /\ error # Null
    /\ Len(messages) >= 2
    /\ messages[Len(messages)].id.pfx = "error"
    /\ UserMessageAt(messages, send) = { Len(messages) - 1 }

\* the step on which a send call is accepted
SendAcceptStep ==
    /\ send'.pc = "posting"
    /\ send'.userAt # send.userAt

\* the number of user-role messages of a window
UserCount(window) ==
    Cardinality({ i \in 1..Len(window) : window[i].role = "user" })

\* C5: the step that accepts a send appends exactly one message to the
\* window, of role user and with the trimmed text; and every later step of
\* the same send keeps all messages of the window in place and adds no
\* user-role message.
AcceptedSendAddsOneUserMessage ==
    [][/\ SendAcceptStep =>
            /\ Len(messages') = Len(messages) + 1
            /\ SubSeq(messages', 1, Len(messages)) = messages
            /\ messages'[Len(messages')].role = "user"
            /\ UserMessageAt(messages', send') = { Len(messages') }
       /\ (send' # send /\ ~SendAcceptStep) =>
            /\ Len(messages') >= Len(messages)
            /\ SubSeq(messages', 1, Len(messages)) = messages
            /\ UserCount(messages') = UserCount(messages)]_vars

AcceptedSendAddsOneUserMessageWitness ==
    /\ send.result = "ok"
    /\ Len(messages) >= 2
    /\ messages[Len(messages)].role = "assistant"
    /\ UserMessageAt(messages, send) = { Len(messages) - 1 }

\* a call of handleSubmit with `text` returns at a guard, its own or that
\* of sendMessage
Rejects(text) == ~(HandleSubmitGuard(text) /\ SendMessageGuard(Trim(text)))

\* C6: a send call made while a send is in flight or isLoading is set, or
\* with text that is empty after trimming, returns at a guard; the call that
\* returns at a guard changes neither the window nor the requests in flight
\* nor the backend; and no step taken while a send is in flight accepts
\* another.
SendRejectedWhileSending ==
    /\ [](\A text \in Texts :
            (send.pc = "posting" \/ isLoading \/ Trim(text) = <<>>)
            => Rejects(text))
    /\ [][/\ \A text \in Texts :
               SendRejected(text) => UNCHANGED <<messages, flightVars, srvVars>>
          /\ (send.pc = "posting" \/ isLoading) => ~SendAcceptStep]_vars

\* a send is in flight although isLoading is not set: only isSubmitting
\* keeps a second send out
SendRejectedWhileSendingWitness ==
    /\ send.pc = "posting"
    /\ ~isLoading
    /\ isSubmitting

\* the conversation ids carried by the requests in flight
RequestIds ==
    { req.chatId : req \in BagToSet(loads) }
    \cup BagToSet(switches)
    \cup { req.chatId : req \in BagToSet(deletes) }
    \cup (IF send.pc = "posting" THEN { send.body } ELSE {})

\* C7: no request in flight carries the sentinel id "temp"; a send made
\* while the current conversation's id is "temp" carries no conversation id.
NoRequestCarriesTemp ==
    /\ Temp \notin RequestIds
    /\ (send.pc = "posting" /\ send.chatId = Temp) => send.body = Undefined

NoRequestCarriesTempWitness ==
    /\ send.pc = "posting"
    /\ send.chatId = Temp
    /\ currentChat.id = Temp

\* C8: at most one request for a page of messages is in flight at a time.
AtMostOneLoadInFlight == BagCardinality(loads) <= 1

\* C9: a page of messages that arrives for a conversation that is not the
\* current one leaves the window, hasMore and the current page as they were.
StaleLoadDiscarded ==
    [][\A req \in BagToSet(loads) :
         (LoadMessagesOk(req) /\ req.chatId # IdOf(currentChat))
         => UNCHANGED <<messages, hasMoreMessages, currentPage>>]_vars

NotYetIn(window, items) ==
    SelectSeq(items, LAMBDA m : m.id \notin IdsOf(window))

\* C11: a successful load of page 1 makes the window exactly the returned
\* items; a successful load of a later page puts before the window those
\* returned items whose ids the window does not hold, and adds no id a
\* second time; in both cases hasMoreMessages becomes has_next and
\* currentPage becomes the page.
LoadMergesWithoutDuplicates ==
    [][\A req \in BagToSet(loads) :
         LoadMessagesOk(req) =>
           LET response == ServerPage(req.chatId, srvCount[req.chatId], req.page)
           IN /\ messages' = IF req.page = 1 THEN response.messages
                             ELSE NotYetIn(messages, response.messages) \o messages
              /\ hasMoreMessages' = response.has_next
              /\ currentPage' = req.page]_vars

\* the deleteChat call `req`, made for the conversation that was current,
\* succeeds
DeletesCurrent(req) ==
    /\ DeleteChatOk(req)
    /\ req.cur = req.chatId

\* C12: when a delete of the conversation that was current succeeds and
\* another conversation remains in the list, the current conversation
\* becomes the first of the remaining list, which is not null and not the
\* deleted one, and a request for page 1 of its messages is issued.
DeleteCurrentSelectsRemaining ==
    [][\A req \in BagToSet(deletes) :
         (DeletesCurrent(req)
          /\ \E i \in 1..Len(chats) : chats[i].id # req.chatId)
         => /\ currentChat' # NullChat
            /\ currentChat'.id # req.chatId
            /\ Len(chats') > 0
            /\ currentChat' = chats'[1]
            /\ req.chatId \notin IdsOf(chats')
            /\ currentPage' = 1
            /\ CopiesIn([chatId |-> currentChat'.id, page |-> 1], loads')
                 > CopiesIn([chatId |-> currentChat'.id, page |-> 1], loads)]_vars

DeleteCurrentSelectsRemainingWitness ==
    /\ ops = 1
    /\ Len(srvChats) = 1
    /\ Len(chats) = 1
    /\ currentChat = chats[1]
    /\ currentChat.id = "c2"
    /\ BagIn([chatId |-> "c2", page |-> 1], loads)

\* C13: when a delete of the conversation that was current succeeds and it
\* was the only conversation of the list, the window becomes exactly the
\* welcome message, the current conversation becomes null and the list
\* becomes empty.
DeleteLastResetsToWelcome ==
    [][\A req \in BagToSet(deletes) :
         (DeletesCurrent(req)
          /\ \A i \in 1..Len(chats) : chats[i].id = req.chatId)
         => /\ Len(messages') = 1
            /\ messages'[1].id.pfx = "welcome"
            /\ messages'[1].role = "assistant"
            /\ currentChat' = NullChat
            /\ chats' = <<>>]_vars

DeleteLastResetsToWelcomeWitness ==
    /\ ops = 2
    /\ srvChats = <<>>
    /\ chats = <<>>
    /\ currentChat = NullChat
    /\ Len(messages) = 1
    /\ messages[1].id.pfx = "welcome"

\* C16: when the refresh started by a 401 fails, both localStorage entries
\* (the TokenPair and the User) are removed, the redirect is made and the
\* request ends as failed.
RefreshFailureClearsAll ==
    [][\A r \in 1..MaxReqs :
         RefreshFail(r) =>
           /\ storedTokens' = NoTokens
           /\ storedUser' = NoUser
           /\ redirected'
           /\ reqs'[r].pc = "failed"]_vars

\* C17: a failed response starts a refresh only if its status is 401, the
\* request's endpoint is not exempt and the request is not marked retried;
\* and no request starts more than one refresh or leaves the client more
\* than twice.
RefreshAtMostOncePerRequest ==
    /\ [](\A r \in 1..MaxReqs :
            reqs[r].refreshes <= 1 /\ reqs[r].issues <= 2)
    /\ [][\A r \in 1..MaxReqs, status \in Statuses :
            (ResponseError(r, status) /\ reqs'[r].refreshes > reqs[r].refreshes)
            => /\ status = 401
               /\ ~isAuthEndpoint(reqs[r].url)
               /\ ~reqs[r].retry
               /\ reqs'[r].retry]_vars

\* a request was answered 401, refreshed, made again and failed again
RefreshAtMostOncePerRequestWitness ==
    \E r \in 1..MaxReqs :
        /\ reqs[r].pc = "failed"
        /\ reqs[r].issues = 2
        /\ reqs[r].refreshes = 1

\* C18: the step on which a refresh succeeds writes a TokenPair newer than
\* any issued before to localStorage and makes the original request again
\* with that pair as its bearer credential, not the one it was sent with.
ReissueCarriesNewTokens ==
    [][\A r \in 1..MaxReqs :
         RefreshOk(r) =>
           /\ storedTokens' > issued
           /\ reqs'[r].pc = "sent"
           /\ reqs'[r].bearer = storedTokens'
           /\ reqs'[r].bearer # reqs[r].bearer]_vars

ReissueCarriesNewTokensWitness ==
    \E r \in 1..MaxReqs :
        /\ reqs[r].pc = "sent"
        /\ reqs[r].issues = 2
        /\ storedTokens > 1
        /\ reqs[r].bearer = storedTokens

\* C19: a request made while a TokenPair is stored carries that pair and
\* changes neither localStorage nor the redirect; a request to a protected
\* endpoint made while none is stored makes the redirect; a request to an
\* exempt endpoint made while none is stored leaves with no credential, no
\* redirect and localStorage as it was.
AttachCredentialOrSignal ==
    [][\A r \in 1..MaxReqs, url \in Urls :
         Request(r, url) =>
           /\ reqs'[r].pc = "sent"
           /\ storedTokens # NoTokens =>
                /\ reqs'[r].bearer = storedTokens
                /\ UNCHANGED <<storedTokens, storedUser, redirected>>
           /\ (storedTokens = NoTokens /\ ~isAuthEndpoint(url)) => redirected'
           /\ (storedTokens = NoTokens /\ isAuthEndpoint(url)) =>
                /\ reqs'[r].bearer = NoTokens
                /\ UNCHANGED <<storedTokens, storedUser, redirected>>]_vars

AttachCredentialOrSignalWitness ==
    /\ storedTokens = NoTokens
    /\ ~redirected
    /\ \E r \in 1..MaxReqs :
         /\ reqs[r].pc = "sent"
         /\ isAuthEndpoint(reqs[r].url)
         /\ reqs[r].bearer = NoTokens

\* C20: a 401 from a protected endpoint that ends the request as failed
\* (no refresh token stored, or the request was already made again) leaves
\* the TokenPair removed and the redirect made.
Unrecovered401ExpiresSession ==
    [][\A r \in 1..MaxReqs :
         (/\ ResponseError(r, 401)
          /\ ~isAuthEndpoint(reqs[r].url)
          /\ reqs'[r].pc = "failed")
         => (storedTokens' = NoTokens /\ redirected')]_vars

\* C14: isInitializing is true from the start and for as long as
\* initializeAuth has not ended; once false it is never true again, so it
\* turns false exactly once; and it does turn false, whether no session is
\* stored, the stored one is validated, its validation fails, or reading
\* localStorage throws.
InitializingOneShot ==
    /\ [](initPc # "done" => isInitializing)
    /\ [][~isInitializing => ~isInitializing']_vars
    /\ <>(~isInitializing)

InitializingOneShotWitness ==
    /\ initPc = "done"
    /\ ~isInitializing
    /\ authOps > 0
    /\ authLoading

\* C15: when initializeAuth found both entries and its current-user call
\* resolves, the session user is the user that call returned; when the call
\* rejects, both entries are removed and the session has no user.
InitializeValidatesSession ==
    /\ [](initPc = "validating" =>
            storedUser # NoUser /\ storedTokens # NoTokens)
    /\ [][/\ ValidateOk => user' = srvUser
          /\ ValidateFail =>
               /\ user' = NoUser
               /\ storedUser' = NoUser
               /\ storedTokens' = NoTokens]_vars

\* the session runs with the profile the backend returned, which is not the
\* one in localStorage
InitializeValidatesSessionWitness ==
    /\ initPc = "done"
    /\ authOps = 0
    /\ user # NoUser
    /\ user # storedUser

\* C21: the mount effect of an authenticated session requests page 1 of
\* the conversation list and nothing else; when the list arrives it becomes
\* the conversation list, and if it is not empty and no conversation is
\* current, its first conversation becomes current and one request for
\* page 1 of that conversation's messages is issued; a conversation that is
\* current already is left current and no request is issued.
BootstrapSelectsFirst ==
    [][/\ (Mount /\ isAuthenticated) =>
            /\ ~chatsReq /\ chatsReq'
            /\ UNCHANGED <<chats, currentChat, messages, loads>>
       /\ LoadChatsOk =>
            /\ chats' = ServerChatsPage
            /\ (Len(ServerChatsPage) > 0 /\ currentChat = NullChat) =>
                 /\ currentChat' = ServerChatsPage[1]
                 /\ loads' = loads (+) One([chatId |-> ServerChatsPage[1].id,
                                            page |-> 1])
            /\ currentChat # NullChat =>
                 UNCHANGED <<currentChat, loads>>]_vars

BootstrapSelectsFirstWitness ==
    /\ isAuthenticated /\ mounted /\ ~chatsReq
    /\ ops = 0
    /\ Len(chats) = 2
    /\ currentChat = chats[1]
    /\ loads = One([chatId |-> chats[1].id, page |-> 1])

\* C22: the mount effect of an anonymous session issues no request and
\* leaves the current conversation with id "temp" and is_anonymous true and
\* a window of exactly one message, the welcome message.
AnonymousBootstrapLocal ==
    [][(Mount /\ ~isAuthenticated) =>
         /\ currentChat'.id = Temp
         /\ currentChat'.is_anonymous
         /\ Len(messages') = 1
         /\ messages'[1].id.pfx = "welcome"
         /\ messages'[1].role = "assistant"
         /\ ~isChatLoading'
         /\ Quiescent /\ Quiescent'
         /\ UNCHANGED <<flightVars, srvVars>>]_vars

AnonymousBootstrapLocalWitness ==
    /\ ~isAuthenticated /\ mounted
    /\ ops = 0
    /\ currentChat.id = Temp
    /\ currentChat.is_anonymous
    /\ Len(messages) = 1
    /\ messages[1].id.pfx = "welcome"
    /\ Quiescent

\* C23: the step on which a send succeeds appends the returned assistant
\* message at the end of the window, after the send's user message; if
\* the response carries a conversation whose id is not the current id the
\* call was made with, that conversation becomes current and is put at the
\* head of the conversation list; otherwise the current conversation and
\* the list are left as they are.
SuccessfulSendAdoptsNewChat ==
    [][\A withChat \in BOOLEAN :
         PostOk(TRUE, withChat) =>
           /\ Len(messages') = Len(messages) + 1
           /\ SubSeq(messages', 1, Len(messages)) = messages
           /\ messages'[Len(messages')] =
                 ServerMessage(ResponseChat.id, srvCount[ResponseChat.id] + 2)
           /\ messages'[Len(messages')].role = "assistant"
           /\ \A i \in UserMessageAt(messages', send) : i < Len(messages')
           /\ IF withChat /\ ResponseChat.id # send.chatId
              THEN /\ currentChat' = ResponseChat
                   /\ chats' = <<ResponseChat>> \o chats
              ELSE UNCHANGED <<currentChat, chats>>]_vars

\* the first send of a blank conversation was answered in a new one while
\* two conversations were listed
SuccessfulSendAdoptsNewChatWitness ==
    /\ send.result = "ok"
    /\ Len(chats) = 3
    /\ chats[1].id = "c3"
    /\ currentChat = chats[1]
    /\ Len(messages) = 3
    /\ messages[3].role = "assistant"
    /\ messages[3].chat_id = "c3"
    /\ UserMessageAt(messages, send) = {2}

\* C24: the step on which a send is answered with no message payload
\* appends exactly one message to the window, the apology and not a
\* message of the backend, sets the error to a non-null value, ends the
\* send as failed and leaves the current conversation and the
\* conversation list as they are, whether or not the response carries a
\* conversation.
MalformedResponseIsFailure ==
    [][\A withChat \in BOOLEAN :
         PostOk(FALSE, withChat) =>
           /\ Len(messages') = Len(messages) + 1
           /\ SubSeq(messages', 1, Len(messages)) = messages
           /\ messages'[Len(messages')] = ErrorMessage(send.chatId, now)
           /\ messages'[Len(messages')].id.pfx # "msg"
           /\ error' # Null
           /\ send'.result = "failed"
           /\ UNCHANGED <<currentChat, chats>>]_vars

MalformedResponseIsFailureWitness ==
    /\ send.result = "failed"
    /\ send.attempts = 1
    /\ send.fails = <<"malformed">>
    /\ error = "Invalid response from server"
    /\ messages[Len(messages)].id.pfx = "error"

\* C25: a call of loadMoreMessages that returns at its guard changes
\* nothing; one that passes it is made while a conversation is current,
\* hasMoreMessages is set and no request for a page of messages is in
\* flight, and issues exactly the request for the page after currentPage
\* of the current conversation.
LoadMoreOnlyWhenIdle ==
    [][/\ LoadMoreDropped => UNCHANGED chatVars
       /\ LoadMoreMessages =>
            /\ currentChat # NullChat
            /\ hasMoreMessages
            /\ loads = EmptyBag
            /\ loads' = One([chatId |-> currentChat.id,
                             page |-> currentPage + 1])]_vars

\* C26: createNewChat issues no request and leaves no conversation
\* current, the window exactly the welcome message, currentPage 1 and
\* hasMoreMessages false.
CreateNewResetsPagination ==
    [][CreateNewChat =>
         /\ UNCHANGED <<flightVars, srvVars>>
         /\ currentChat' = NullChat
         /\ Len(messages') = 1
         /\ messages'[1].id.pfx = "welcome"
         /\ currentPage' = 1
         /\ ~hasMoreMessages']_vars

\* C27: used one operation at a time, switchChat after getChat resolves
\* makes the fetched conversation current, sets currentPage to 1 and has
\* only requests for page 1 of that conversation in flight; and when a
\* request for page 1 resolves, the conversation it was made for is
\* current, currentPage is 1 and the window is exactly the page returned.
SwitchReplacesWindow ==
    /\ [][\A c \in ChatIds :
            SwitchChatOk(c) =>
              /\ currentChat' = ChatWithId(srvChats, c)
              /\ currentChat'.id = c
              /\ currentPage' = 1
              /\ BagToSet(loads') = { [chatId |-> c, page |-> 1] }]_vars
    /\ [][\A c \in ChatIds :
            LoadMessagesOk([chatId |-> c, page |-> 1]) =>
              /\ currentChat.id = c
              /\ currentChat' = currentChat
              /\ currentPage' = 1
              /\ messages' = ServerPage(c, srvCount[c], 1).messages]_vars

\* the second conversation of the list was switched to, and its page 1 is
\* the window
SwitchReplacesWindowWitness ==
    /\ Quiescent
    /\ ops >= 1
    /\ Len(chats) = 2
    /\ chats[1].id = "c1"
    /\ currentChat = chats[2]
    /\ currentPage = 1
    /\ messages = ServerPage("c2", srvCount["c2"], 1).messages
    /\ Len(messages) = 2

\* a request for the conversation list, a conversation or a page of
\* messages fails
LoadFailureStep ==
    \/ \E kind \in LoadFailKinds : LoadChatsFail(kind)
    \/ \E req \in BagToSet(loads), kind \in LoadFailKinds :
         LoadMessagesFail(req, kind)
    \/ \E c \in BagToSet(switches), kind \in LoadFailKinds :
         SwitchChatFail(c, kind)

\* C28: the step on which a request for the conversation list, a
\* conversation or a page of messages fails leaves the conversation list,
\* the current conversation, the window, hasMoreMessages and currentPage
\* as they were and sets the error to a non-null value.
FailedLoadLeavesState ==
    [][LoadFailureStep =>
         /\ UNCHANGED <<chats, currentChat, messages, hasMoreMessages,
                        currentPage>>
         /\ error' # Null]_vars

\* a signin, login or register call starts
AuthCallStarts == Signin \/ \E kind \in LoginKinds : Login(kind)

\* a signin, login or register call ends with a session
AuthCallSucceeds == SigninOk \/ LoginOk

LogoutClearsEverything ==
    [][\A backendOk \in BOOLEAN :
         LogoutDone(backendOk) =>
           /\ storedUser' = NoUser
           /\ storedTokens' = NoTokens
           /\ user' = NoUser
           /\ ~authLoading'
           /\ authPc' = "idle"]_vars

\* the session found by initializeAuth was logged out
LogoutClearsEverythingWitness ==
    /\ initPc = "done"
    /\ authPc = "idle"
    /\ authOps = 1
    /\ authError = Null
    /\ user = NoUser
    /\ storedUser = NoUser
    /\ storedTokens = NoTokens
    /\ issued = 1

\* a sendMessage call returns, with its response or its last failure, when
\* the conversation it was made in is still listed and is no longer the
\* current one: switchChat or createNewChat has run since the call
StaleSendSettles ==
    /\ send.pc = "posting"
    /\ send'.pc = "idle"
    /\ send.chatId \in IdsOf(chats)
    /\ IdOf(currentChat) # send.chatId

\* C31: a send whose conversation is no longer the current one when its
\* response or its last failure arrives appends neither the assistant reply
\* nor the apology to the window of the conversation that is now current.
StaleSendLeavesWindow ==
    [][StaleSendSettles => messages' = messages]_vars

\* the failure caught carries a backend response
HasResponse(e) == "response" \in DOMAIN e

\* the failure caught carries a request and no response
RequestOnly(e) == ~HasResponse(e) /\ "request" \in DOMAIN e

\* the classes an ApiError can be read as: NetworkError, UnknownError, or
\* the error of a backend response
ClassesOf(a, e) ==
    { c \in {"network", "unknown", "backend"} :
        \/ c = "network" /\ a.status_code = 0 /\ a.type = "network_error"
        \/ c = "unknown" /\ a.status_code = 500 /\ a.type = "unknown_error"
        \/ /\ c = "backend" /\ HasResponse(e)
           /\ a.status_code = e.response.status
           /\ a.type = e.response.type }

NetworkClassReachesRetry ==
    [][\A kind \in FailKinds :
         (PostFail(kind) /\ NetworkFailure(kind))
             => IsNetworkError(SendMessageError(kind))]_vars

\* C34: every accepted send eventually returns and leaves isLoading false,
\* whether its call resolved, resolved malformed or failed, provided every
\* call of the backend and every backoff delay comes to its end.
AcceptedSendResolves ==
    (send.pc = "posting") ~> (send.pc = "idle" /\ ~isLoading)

\* a send has returned after a failed call and the flag is down
AcceptedSendResolvesWitness ==
    /\ send.pc = "idle"
    /\ send.result = "failed"
    /\ send.attempts = 1
    /\ ~isLoading
    /\ ~isSubmitting

\* C35: in every reachable state no two messages of the window have the
\* same id, whatever the interleaving of send, load more, switch, new chat
\* and delete, on a backend whose pages shift as messages are added.
WindowIdsDistinct ==
    \A i \in 1..Len(messages), j \in 1..Len(messages) :
        messages[i].id = messages[j].id => i = j

\* C36: once every call has resolved, the current conversation is none, the
\* "temp" conversation or a conversation the backend still has: never one
\* whose deletion has succeeded.
CurrentNeverDeleted ==
    Quiescent =>
        \/ currentChat = NullChat
        \/ currentChat.id = Temp
        \/ currentChat.id \in IdsOf(srvChats)

\* In authenticated mode a send made with no current conversation has been
\* answered with a new conversation, which is now current; the window ends
\* with the send's user message and the reply; and the page-1 load that the
\* change of current triggered resolves, leaving no load of that
\* conversation in flight.
NewChatLoadResolves ==
    /\ isAuthenticated
    /\ send.pc = "idle" /\ send.result = "ok" /\ send.chatId = Undefined
    /\ currentChat # NullChat
    /\ \E i \in 1..Len(NewChatIds) : currentChat.id = NewChatIds[i]
    /\ Len(messages) >= 2
    /\ UserMessageAt(messages, send) = {Len(messages) - 1}
    /\ messages[Len(messages)] = ServerMessage(currentChat.id, 2)
    /\ LET req == [chatId |-> currentChat.id, page |-> 1]
       IN /\ BagIn(req, loads)
          /\ LoadMessagesOk(req)
          /\ ~BagIn(req, loads')

LoadInFlight ==
    chatsReq \/ switches # EmptyBag \/ loads # EmptyBag

\* C38: isChatLoading is true in every state in which a conversation-list,
\* conversation-metadata or message-page request is in flight and false in
\* every state in which none is; it does not go down while a second,
\* overlapping load is still pending.
ChatLoadingTracksRequests ==
    isChatLoading <=> LoadInFlight

\* signin, login or register fails, at its credential call or at the
\* current-user call that follows
AuthCallFails == SigninFail \/ LoginFail

\* the call has obtained a token pair: the one issued last
HoldsPair == authPc \in {"me", "loginMe"}

\* C39: when signin, login or register fails at either step, the token pair
\* of the attempt is not in localStorage, the User entry and the session
\* user are as they were; when it succeeds, the pair and the fetched user
\* are in localStorage and the session user is the fetched user.
AuthCallAllOrNothing ==
    [][/\ AuthCallFails =>
           /\ HoldsPair => storedTokens' # issued
           /\ storedUser' = storedUser
           /\ user' = user
       /\ (SigninOk \/ LoginOk) =>
           /\ storedTokens' = issued
           /\ storedUser' = srvUser
           /\ user' = srvUser]_vars

\* C40: in login and register the current-user request, issued once the
\* token pair has been obtained, carries that pair as its bearer credential
\* and does not set off the redirect of a request without stored tokens.
CurrentUserRequestCarriesNewPair ==
    [][LoginTokens =>
           /\ reqs'[1].bearer = issued'
           /\ redirected' = redirected]_vars

====
